---- MODULE Spec2Model ----
(***************************************************************************)
(* Model of bin/cli.js of gscan: the flag resolution, the invocation of    *)
(* the checker, and the rendering of its result as a report with an exit   *)
(* code.  Lines written by ui.log are kept as sequences of spans so that   *)
(* the styling characters chalk injects stay distinguishable from the      *)
(* characters a reader sees.                                               *)
(***************************************************************************)
EXTENDS Integers, Sequences, FiniteSets, TLC

VARIABLES
    pc,          \* position of the run: "parsed", "checking", "exited", "settled"
    argv,        \* the parsed command line handed to the .then callback
    color,       \* whether chalk emits styling codes (terminal colour support)
    options,     \* the module-level options object
    theme,       \* the theme variable of outputResults (after the try block)
    raw,         \* the ThemeResult the checker resolved with
    formatErr,   \* the error gscan.format threw, or NoError
    checkErr,    \* the error the checker rejected with, or NoError
    log,         \* the lines written through ui.log / ui.log.error, in order
    exitCode,    \* argument of process.exit, or NoExit
    rejection    \* "none", "handled" or "unhandled": fate of the promise chain

vars == <<pc, argv, color, options, theme, raw, formatErr, checkErr, log, exitCode, rejection>>

(***************************************************************************)
(* Bounds of the model.                                                    *)
(***************************************************************************)
MaxErrors == 2
MaxWarnings == 3
MaxOther == 1

NoError == [code |-> "", message |-> ""]
NoExit == -1
NoTheme == [checkedVersion |-> "", results |-> [error |-> <<>>, warning |-> <<>>, recommendation |-> <<>>, feature |-> <<>>]]
NoOptions == [format |-> "cli"]

(***************************************************************************)
(* Text.  A line is a sequence of spans; a hidden span is a run of         *)
(* styling characters (ANSI escape codes), a visible one is printed text.  *)
(* The escape character U+001B is written "^" so that every code keeps     *)
(* its length.                                                             *)
(***************************************************************************)
Text(s) == <<[s |-> s, hidden |-> FALSE]>>

Code(s) == <<[s |-> s, hidden |-> TRUE]>>

RECURSIVE Raw(_)
Raw(line) == IF line = <<>> THEN "" ELSE Head(line).s \o Raw(Tail(line))

RECURSIVE Vis(_)
Vis(line) ==
    IF line = <<>> THEN ""
    ELSE (IF Head(line).hidden THEN "" ELSE Head(line).s) \o Vis(Tail(line))

RECURSIVE Hidden(_)
Hidden(line) ==
    IF line = <<>> THEN 0
    ELSE (IF Head(line).hidden THEN Len(Head(line).s) ELSE 0) + Hidden(Tail(line))

StyleOpen ==
    [bold |-> "^[1m", red |-> "^[31m", green |-> "^[32m", yellow |-> "^[33m",
     cyan |-> "^[36m", underline |-> "^[4m"]

StyleClose ==
    [bold |-> "^[22m", red |-> "^[39m", green |-> "^[39m", yellow |-> "^[39m",
     cyan |-> "^[39m", underline |-> "^[24m"]

RECURSIVE Chalk(_, _, _)
Chalk(col, styles, s) ==
    IF ~col \/ styles = <<>> THEN Text(s)
    ELSE Code(StyleOpen[Head(styles)]) \o Chalk(col, Tail(styles), s)
             \o Code(StyleClose[Head(styles)])

RECURSIVE repeat(_, _)
repeat(s, n) == IF n < 1 THEN "" ELSE s \o repeat(s, n - 1)

capitalize ==
    [error |-> "Error", warning |-> "Warning", recommendation |-> "Recommendation",
     feature |-> "Feature"]

pluralizeAlways(word, count) == ToString(count) \o " " \o word \o "s"

pluralize(word, count) ==
    ToString(count) \o " " \o (IF count = 1 THEN word ELSE word \o "s")

levels ==
    [error |-> <<"red">>, warning |-> <<"yellow">>, recommendation |-> <<"yellow">>,
     feature |-> <<"green">>]

\* A field that may be absent is a sequence of length 0 (absent) or 1.
Template(m) == IF m = <<>> THEN "undefined" ELSE m[1]

(***************************************************************************)
(* The option resolver: the branch chain of the parseAndExit callback.     *)
(***************************************************************************)
checkVersionLastMatch(a) ==
    IF a.canary THEN "canary"
    ELSE IF a.v4 THEN "v4"
    ELSE IF a.v3 THEN "v3"
    ELSE IF a.v2 THEN "v2"
    ELSE IF a.v1 THEN "v1"
    ELSE "latest"

checkVersionOf(a) ==
    IF a.v1 THEN "v1"
    ELSE IF a.v2 THEN "v2"
    ELSE IF a.v3 THEN "v3"
    ELSE IF a.v4 THEN "v4"
    ELSE IF a.canary THEN "canary"
    ELSE "latest"

resolve(a) ==
    [format |-> "cli", checkVersion |-> checkVersionOf(a), verbose |-> a.verbose,
     onlyFatalErrors |-> a.fatal]

banner(col, opts) ==
    IF opts.onlyFatalErrors
    THEN Chalk(col, <<"bold">>, "\nChecking theme compatibility (fatal issues only)...")
    ELSE Chalk(col, <<"bold">>, "\nChecking theme compatibility...")

(***************************************************************************)
(* Log entries: a line of text, or an object handed to the logger as is.   *)
(***************************************************************************)
LogLine(ch, line) == [ch |-> ch, line |-> line, obj |-> NoError]

LogObject(ch, e) == [ch |-> ch, line |-> <<>>, obj |-> e]

(***************************************************************************)
(* getSummary                                                              *)
(***************************************************************************)
hiddenSymbols == 38

\* U+2713 (one character), written "v".
checkSymbol == "v"

summarySentence(col, t) ==
    LET errorCount == Len(t.results.error)
        warnCount == Len(t.results.warning)
    IN  Text("Your theme has")
        \o (IF errorCount # 0
            THEN Chalk(col, <<"red", "bold">>, " " \o pluralize("error", errorCount))
            ELSE <<>>)
        \o (IF errorCount # 0 /\ warnCount # 0 THEN Text(" and") ELSE <<>>)
        \o (IF warnCount # 0
            THEN Chalk(col, <<"yellow", "bold">>, " " \o pluralize("warning", warnCount))
            ELSE <<>>)
        \o Text("!")

getSummary(col, t, opts) ==
    LET errorCount == Len(t.results.error)
        warnCount == Len(t.results.warning)
    IN  IF errorCount = 0 /\ warnCount = 0 THEN
            IF opts.onlyFatalErrors
            THEN Chalk(col, <<"green">>, checkSymbol)
                   \o Text(" Your theme has no fatal compatibility issues with Ghost "
                            \o t.checkedVersion)
            ELSE Chalk(col, <<"green">>, checkSymbol)
                   \o Text(" Your theme is compatible with Ghost " \o t.checkedVersion)
        ELSE LET summaryText == summarySentence(col, t)
             IN  summaryText \o Text("\n")
                     \o Text(repeat("-", Len(Raw(summaryText)) - hiddenSymbols))

(***************************************************************************)
(* outputResult: the lines one finding is rendered as.                     *)
(***************************************************************************)
RECURSIVE joinRefsReversed(_)
joinRefsReversed(failures) ==
    IF failures = <<>> THEN ""
    ELSE IF Len(failures) = 1 THEN Head(failures).ref
    ELSE joinRefsReversed(Tail(failures)) \o "," \o Head(failures).ref

RECURSIVE joinRefs(_)
joinRefs(failures) ==
    IF failures = <<>> THEN ""
    ELSE IF Len(failures) = 1 THEN Head(failures).ref
    ELSE Head(failures).ref \o "," \o joinRefs(Tail(failures))

hasFailuresField(result) == result.failures # <<>>

hasFailures(result) == result.failures # <<>> /\ Len(result.failures[1]) # 0

outputResult(col, verbose, result) ==
    <<LogLine("log", Chalk(col, levels[result.level], "- " \o capitalize[result.level] \o ":")
                       \o Text(" " \o result.rule))>>
    \o (IF verbose
        THEN <<LogLine("log", Chalk(col, <<"bold">>, "\nDetails:")
                                \o Text(" " \o Template(result.details)))>>
        ELSE <<>>)
    \o (IF hasFailures(result)
        THEN IF verbose
             THEN <<LogLine("log", Text("")), LogLine("log", Chalk(col, <<"bold">>, "Files:"))>>
                  \o [i \in 1..Len(result.failures[1]) |->
                         LogLine("log", Text(result.failures[1][i].ref \o " - "
                                               \o result.failures[1][i].message))]
             ELSE <<LogLine("log", Chalk(col, <<"bold">>, "Files:")
                                     \o Text(" " \o joinRefs(result.failures[1])))>>
        ELSE <<>>)
    \o <<LogLine("log", Text(""))>>

RECURSIVE each(_, _, _)
each(col, verbose, bucket) ==
    IF bucket = <<>> THEN <<>>
    ELSE outputResult(col, verbose, Head(bucket)) \o each(col, verbose, Tail(bucket))

(***************************************************************************)
(* outputResults: the try block, the report and the exit code.             *)
(***************************************************************************)
\* out is what the call of gscan.format did: returned out.theme, or threw out.err
afterFormatAssigned(t, out) == out.theme

afterFormat(t, out) == IF out.threw THEN t ELSE out.theme

formatLog(out) ==
    IF out.threw
    THEN <<LogLine("error", Text("Error formating result, some results may be missing.")),
           LogObject("error", out.err)>>
    ELSE <<>>

errorsSection(col, verbose, t) ==
    IF t.results.error # <<>>
    THEN <<LogLine("log", Chalk(col, <<"red", "bold">>, "\nErrors")),
           LogLine("log", Chalk(col, <<"red", "bold">>, "------")),
           LogLine("log", Chalk(col, <<"red">>,
                                "Important to fix, functionality may be degraded.\n"))>>
         \o each(col, verbose, t.results.error)
    ELSE <<>>

warningsSection(col, verbose, t) ==
    IF t.results.warning # <<>>
    THEN <<LogLine("log", Chalk(col, <<"yellow", "bold">>, "\nWarnings")),
           LogLine("log", Chalk(col, <<"yellow", "bold">>, "--------"))>>
         \o each(col, verbose, t.results.warning)
    ELSE <<>>

recommendationsSection(col, verbose, t) ==
    IF t.results.recommendation # <<>>
    THEN <<LogLine("log", Chalk(col, <<"yellow", "bold">>, "\nRecommendations")),
           LogLine("log", Chalk(col, <<"yellow", "bold">>, "---------------"))>>
         \o each(col, verbose, t.results.recommendation)
    ELSE <<>>

footer(col) ==
    <<LogLine("log", Text("\nGet more help at ")
                      \o Chalk(col, <<"cyan", "underline">>,
                               "https://ghost.org/docs/api/handlebars-themes/")),
      LogLine("log", Text("You can also check theme compatibility at ")
                      \o Chalk(col, <<"cyan", "underline">>, "https://gscan.ghost.org/"))>>

reportWarningsFirst(col, t, opts) ==
    <<LogLine("log", Text("\n") \o getSummary(col, t, opts))>>
    \o warningsSection(col, opts.verbose, t)
    \o errorsSection(col, opts.verbose, t)
    \o recommendationsSection(col, opts.verbose, t)
    \o footer(col)

report(col, t, opts) ==
    <<LogLine("log", Text("\n") \o getSummary(col, t, opts))>>
    \o errorsSection(col, opts.verbose, t)
    \o warningsSection(col, opts.verbose, t)
    \o recommendationsSection(col, opts.verbose, t)
    \o footer(col)

exitPolicyWarnings(t) ==
    IF Len(t.results.error) > 0 \/ Len(t.results.warning) > 0 THEN 1 ELSE 0

exitPolicy(t) == IF Len(t.results.error) > 0 THEN 1 ELSE 0

(***************************************************************************)
(* Inputs: command lines, and what the checker and the formatter can do.   *)
(***************************************************************************)
FlagNames == {"zip", "v1", "v2", "v3", "v4", "canary", "fatal", "verbose"}

AllArgv == [FlagNames -> BOOLEAN]

\* command lines with at most the v1 version flag
PlainArgv == {a \in AllArgv : ~a.v2 /\ ~a.v3 /\ ~a.v4 /\ ~a.canary}

fa == [ref |-> "index.hbs", message |-> "uses pageUrl"]

fb == [ref |-> "post.hbs", message |-> "uses author.cover"]

ErrorFindings ==
    {[rule |-> "GS001-DEPR-PURL", level |-> "error", details |-> <<"Replace pageUrl">>,
      failures |-> << <<fa, fb>> >>],
     [rule |-> "GS005-TPL-ERR", level |-> "error", details |-> <<>>, failures |-> <<>>]}

WarningFindings ==
    {[rule |-> "GS030-ASSET-REQ", level |-> "warning", details |-> <<>>,
      failures |-> << <<>> >>]}

RecommendationFindings ==
    {[rule |-> "GS010-PJ-REQ", level |-> "recommendation", details |-> <<"Add package.json">>,
      failures |-> << <<fb>> >>]}

FeatureFindings ==
    {[rule |-> "GS051-CUST-THEME", level |-> "feature", details |-> <<"Custom settings">>,
      failures |-> << <<fa>> >>]}

BoundedSeq(S, n) == UNION {[1..k -> S] : k \in 0..n}

ThemesUpTo(e, w, o) ==
    {[checkedVersion |-> "4.x",
      results |-> [error |-> be, warning |-> bw, recommendation |-> br, feature |-> bf]] :
        be \in BoundedSeq(ErrorFindings, e), bw \in BoundedSeq(WarningFindings, w),
        br \in BoundedSeq(RecommendationFindings, o), bf \in BoundedSeq(FeatureFindings, o)}

Themes == ThemesUpTo(MaxErrors, MaxWarnings, MaxOther)

FewThemes == ThemesUpTo(1, 0, 0)

CheckErrors ==
    {[code |-> "ENOTDIR", message |-> "ENOTDIR: not a directory, scandir"],
     [code |-> "ENOENT", message |-> "ENOENT: no such file or directory"],
     [code |-> "", message |-> "theme could not be read"]}

FormatErrors == {[code |-> "", message |-> "Cannot read property of undefined"]}

relevel(bucket, lvl) == [i \in DOMAIN bucket |-> [bucket[i] EXCEPT !.level = lvl]]

\* results gscan.format may return for t: t as it is, t with its errors
\* downgraded to warnings, t with its warnings upgraded to errors
Formatted(t) ==
    {t,
     [t EXCEPT !.results.error = <<>>,
               !.results.warning = relevel(t.results.error, "warning") \o t.results.warning],
     [t EXCEPT !.results.error = t.results.error \o relevel(t.results.warning, "error"),
               !.results.warning = <<>>]}

FormatOutcomes(t) ==
    {[threw |-> TRUE, err |-> e, theme |-> NoTheme] : e \in FormatErrors}
    \cup {[threw |-> FALSE, err |-> NoError, theme |-> f] : f \in Formatted(t)}

(***************************************************************************)
(* The run.                                                                *)
(***************************************************************************)
InitWith(A) ==
    /\ pc = "parsed"
    /\ argv \in A
    /\ color \in BOOLEAN
    /\ options = NoOptions
    /\ theme = NoTheme
    /\ raw = NoTheme
    /\ formatErr = NoError
    /\ checkErr = NoError
    /\ log = <<>>
    /\ exitCode = NoExit
    /\ rejection = "none"

Init == InitWith(PlainArgv)

InitFlags == InitWith(AllArgv)

\* the callback of parseAndExit().then, up to the call of the checker
Resolve ==
    /\ pc = "parsed"
    /\ options' = resolve(argv)
    /\ log' = Append(log, LogLine("log", banner(color, options')))
    /\ pc' = "checking"
    /\ UNCHANGED <<argv, color, theme, raw, formatErr, checkErr, exitCode, rejection>>

\* the checker resolves with a ThemeResult: outputResults runs to process.exit
Fulfilled(T) ==
    /\ pc = "checking"
    /\ \E t \in T : \E out \in FormatOutcomes(t) :
          /\ raw' = t
          /\ formatErr' = out.err
          /\ theme' = afterFormat(t, out)
          /\ log' = log \o formatLog(out) \o report(color, theme', options)
          /\ exitCode' = exitPolicy(theme')
    /\ pc' = "exited"
    /\ UNCHANGED <<argv, color, options, checkErr, rejection>>

\* gscan.checkZip rejects: the catch handler logs the error
RejectedZip ==
    /\ pc = "checking"
    /\ argv.zip
    /\ \E e \in CheckErrors :
          /\ checkErr' = e
          /\ log' = Append(log, LogObject("log", e))
    /\ rejection' = "handled"
    /\ pc' = "settled"
    /\ UNCHANGED <<argv, color, options, theme, raw, formatErr, exitCode>>

ENOENTPredicate(err) == err.code = "ENOENT"

ENOTDIRPredicate(err) == err.code = "ENOTDIR"

\* gscan.check rejects: the handler runs only for errors the predicate accepts,
\* any other error stays in the rejected promise, which nothing handles
RejectedDir ==
    /\ pc = "checking"
    /\ ~argv.zip
    /\ \E e \in CheckErrors :
          /\ checkErr' = e
          /\ IF ENOTDIRPredicate(e)
             THEN /\ log' = log \o <<LogLine("log", Text(e.message)),
                                     LogLine("log", Text("Did you mean to add the -z flag to read a zip file?"))>>
                  /\ rejection' = "handled"
             ELSE /\ log' = log
                  /\ rejection' = "unhandled"
    /\ pc' = "settled"
    /\ UNCHANGED <<argv, color, options, theme, raw, formatErr, exitCode>>

Next == Resolve \/ Fulfilled(Themes) \/ RejectedZip \/ RejectedDir

Spec == Init /\ [][Next]_vars

NextFlags == Resolve \/ Fulfilled(FewThemes) \/ RejectedZip \/ RejectedDir

SpecFlags == InitFlags /\ [][NextFlags]_vars

TypeOK ==
    /\ pc \in {"parsed", "checking", "exited", "settled"}
    /\ exitCode \in {NoExit, 0, 1}
    /\ rejection \in {"none", "handled", "unhandled"}

(***************************************************************************)
(* The layout of a report, as the specification words it: where in the     *)
(* log the summary, a section and a finding are expected.                  *)
(***************************************************************************)
Finished == pc = "exited"

FormatThrew == formatErr # NoError

SummaryIndex == IF FormatThrew THEN 4 ELSE 2

VisAt(i) == Vis(log[i].line)

Rendered == <<"error", "warning", "recommendation">>

HeaderSize(level) ==
    IF theme.results[level] = <<>> THEN 0 ELSE IF level = "error" THEN 3 ELSE 2

NoFailures(r) == r.failures = <<>> \/ r.failures[1] = <<>>

FailuresOf(r) == IF r.failures = <<>> THEN <<>> ELSE r.failures[1]

SizeOf(r) ==
    1 + (IF options.verbose THEN 1 ELSE 0)
      + (IF NoFailures(r) THEN 0
         ELSE IF options.verbose THEN 2 + Len(FailuresOf(r)) ELSE 1)
      + 1

RECURSIVE SizeOfFirst(_, _)
SizeOfFirst(bucket, n) ==
    IF n = 0 THEN 0 ELSE SizeOfFirst(bucket, n - 1) + SizeOf(bucket[n])

SectionSize(level) ==
    HeaderSize(level) + SizeOfFirst(theme.results[level], Len(theme.results[level]))

SectionStart(k) ==
    SummaryIndex + 1 + (IF k > 1 THEN SectionSize(Rendered[1]) ELSE 0)
                     + (IF k > 2 THEN SectionSize(Rendered[2]) ELSE 0)

\* index in the log of the label line of the i-th finding of section k
StartOf(k, i) ==
    SectionStart(k) + HeaderSize(Rendered[k]) + SizeOfFirst(theme.results[Rendered[k]], i - 1)

LabelOf(r) ==
    "- " \o (CASE r.level = "error" -> "Error" [] r.level = "warning" -> "Warning"
              [] r.level = "recommendation" -> "Recommendation"
              [] r.level = "feature" -> "Feature")
         \o ": " \o r.rule

Slots == UNION {{<<k, i>> : i \in 1..Len(theme.results[Rendered[k]])} : k \in 1..3}

FindingAt(slot) == theme.results[Rendered[slot[1]]][slot[2]]

(***************************************************************************)
(* Exit code.                                                              *)
(***************************************************************************)
\* C1: once outputResults has run, whether gscan.format returned or threw, the
\* exit code is 1 exactly when the error bucket of the result left by the
\* formatting step is non-empty, and 0 otherwise, whatever the warning,
\* recommendation and feature buckets hold.
C1_ExitCodeIffErrors ==
    Finished =>
        /\ exitCode \in {0, 1}
        /\ exitCode = 1 <=> theme.results.error # <<>>
        /\ ~FormatThrew => theme \in Formatted(raw)

\* the formatter removed every error: warnings and more are left, exit code 0
C1_Witness ==
    /\ Finished
    /\ exitCode = 0
    /\ raw.results.error # <<>>
    /\ theme.results.warning # <<>>
    /\ theme.results.recommendation # <<>>
    /\ theme.results.feature # <<>>

(***************************************************************************)
(* A formatter that throws.                                                *)
(***************************************************************************)
\* C2: when gscan.format throws, the fixed line and the error are logged on the
\* error channel, the whole report of the unformatted result follows, and the
\* run exits with the code its error count gives; the run is not aborted.
C2_FormatFailureTolerated ==
    (pc \in {"exited", "settled"} /\ FormatThrew) =>
        /\ pc = "exited"
        /\ rejection = "none"
        /\ Len(log) >= 4
        /\ log[2].ch = "error"
        /\ VisAt(2) = "Error formating result, some results may be missing."
        /\ log[3] = [ch |-> "error", line |-> <<>>, obj |-> formatErr]
        /\ theme = raw
        /\ SubSeq(log, 4, Len(log)) = report(color, raw, options)
        /\ exitCode = (IF raw.results.error = <<>> THEN 0 ELSE 1)

C2_Witness ==
    /\ Finished
    /\ FormatThrew
    /\ raw.results.error # <<>>
    /\ raw.results.warning # <<>>
    /\ exitCode = 1

(***************************************************************************)
(* Version flags.                                                          *)
(***************************************************************************)
Priority == <<"v1", "v2", "v3", "v4", "canary">>

FlagsSet == {i \in 1..Len(Priority) : argv[Priority[i]]}

\* C5: for every combination of the flags v1, v2, v3, v4 and canary the resolved
\* checkVersion is the first set flag of the list v1, v2, v3, v4, canary, and
\* 'latest' when none is set; the resolution always succeeds; verbose and
\* onlyFatalErrors are the verbose and fatal flags.
C5_FirstFlagWins ==
    /\ pc = "parsed" => ENABLED Resolve
    /\ pc # "parsed" =>
        /\ options.checkVersion =
              (IF FlagsSet = {} THEN "latest"
               ELSE Priority[CHOOSE i \in FlagsSet : \A j \in FlagsSet : i <= j])
        /\ options.verbose = argv.verbose
        /\ options.onlyFatalErrors = argv.fatal

C5_Witness ==
    /\ pc # "parsed"
    /\ argv.v1 /\ argv.v3 /\ ~argv.v2 /\ ~argv.v4 /\ ~argv.canary
    /\ argv.verbose /\ ~argv.fatal
    /\ options.checkVersion = "v1"

(***************************************************************************)
(* A checker that fails.                                                   *)
(***************************************************************************)
Hint == "Did you mean to add the -z flag to read a zip file?"

WrongMode == pc = "settled" /\ ~argv.zip /\ checkErr.code = "ENOTDIR"

NoReport == exitCode = NoExit /\ theme = NoTheme /\ raw = NoTheme

\* C3 as stated: in directory mode, on an ENOTDIR failure, the hint is reported
\* instead of the error (nothing of the error is shown), outputResults is never
\* entered and the rejection is handled.
C3_HintInsteadOfError ==
    WrongMode =>
        /\ rejection = "handled"
        /\ NoReport
        /\ VisAt(Len(log)) = Hint
        /\ \A i \in 2..Len(log) : log[i].obj # checkErr /\ VisAt(i) # checkErr.message

\* C3 amended: in directory mode, on an ENOTDIR failure, the message of the
\* error and then the hint are logged, and nothing else after the banner; the
\* error object itself is not logged, outputResults is never entered and the
\* rejection is handled.
C3_MessageThenHint ==
    WrongMode =>
        /\ rejection = "handled"
        /\ NoReport
        /\ Len(log) = 3
        /\ log[2] = [ch |-> "log", line |-> Text(checkErr.message), obj |-> NoError]
        /\ log[3].ch = "log" /\ log[3].obj = NoError /\ VisAt(3) = Hint

C3_Witness == WrongMode /\ rejection = "handled" /\ Len(log) = 3

\* C4: every failure of the checker other than ENOTDIR in directory mode is
\* displayed as it is and no report is rendered, in zip mode and in directory
\* mode; so every run that ends has either rendered a report and exited with 0
\* or 1, or displayed a message and rendered no report.
C4_FailureDisplayed ==
    pc \in {"exited", "settled"} =>
        /\ (checkErr # NoError /\ ~WrongMode) =>
              /\ NoReport
              /\ Len(log) = 2
              /\ log[2] = [ch |-> "log", line |-> <<>>, obj |-> checkErr]
        /\ \/ pc = "exited" /\ exitCode \in {0, 1} /\ Len(log) >= SummaryIndex + 2
           \/ pc = "settled" /\ NoReport /\ Len(log) >= 2

(***************************************************************************)
(* The summary.                                                            *)
(***************************************************************************)
errorCount == Len(theme.results.error)

warnCount == Len(theme.results.warning)

SummaryLine == log[SummaryIndex].line

Counted(n, word) == " " \o ToString(n) \o " " \o (IF n = 1 THEN word ELSE word \o "s")

Sentence ==
    "Your theme has"
        \o (IF errorCount > 0 THEN Counted(errorCount, "error") ELSE "")
        \o (IF errorCount > 0 /\ warnCount > 0 THEN " and" ELSE "")
        \o (IF warnCount > 0 THEN Counted(warnCount, "warning") ELSE "")
        \o "!"

Underline == SummaryLine[Len(SummaryLine)].s

\* C6: with no error and no warning the summary reads as one success line with
\* the check mark and the checked version, worded by onlyFatalErrors, and has
\* no underline; otherwise it reads 'Your theme has', the error count phrase
\* iff there are errors, 'and' iff there are both, the warning count phrase
\* iff there are warnings, and '!', followed by a line of '-'.
C6_SummaryText ==
    Finished =>
        IF errorCount = 0 /\ warnCount = 0
        THEN Vis(SummaryLine) =
                "\n" \o checkSymbol \o " Your theme "
                     \o (IF options.onlyFatalErrors
                         THEN "has no fatal compatibility issues with Ghost "
                         ELSE "is compatible with Ghost ")
                     \o theme.checkedVersion
        ELSE /\ Vis(SummaryLine) = "\n" \o Sentence \o "\n" \o Underline
             /\ Underline = repeat("-", Len(Underline))

C6_Witness ==
    /\ Finished
    /\ errorCount = 2 /\ warnCount = 3
    /\ Vis(SummaryLine) = "\nYour theme has 2 errors and 3 warnings!\n" \o Underline

\* C7: whenever there is an error or a warning, the underline of the summary
\* is as long as the sentence above it reads: the styling characters of the
\* sentence number hiddenSymbols, and the computed length is not negative.
\* (Stated for a terminal with colour support, where chalk styles the text.)
C7_UnderlineMatches ==
    (Finished /\ color /\ (errorCount > 0 \/ warnCount > 0)) =>
        LET sentence == SubSeq(SummaryLine, 2, Len(SummaryLine) - 2)
        IN  /\ Len(Underline) = Len(Vis(sentence))
            /\ Hidden(sentence) = hiddenSymbols
            /\ Len(Raw(sentence)) - hiddenSymbols >= 0

(***************************************************************************)
(* Findings.                                                               *)
(***************************************************************************)
RECURSIVE CommaList(_)
CommaList(fs) ==
    IF fs = <<>> THEN ""
    ELSE IF Len(fs) = 1 THEN fs[1].ref
    ELSE CommaList(SubSeq(fs, 1, Len(fs) - 1)) \o "," \o fs[Len(fs)].ref

Titles == <<"Errors", "Warnings", "Recommendations">>

FooterFirst == "\nGet more help at https://ghost.org/docs/api/handlebars-themes/"

FooterSecond == "You can also check theme compatibility at https://gscan.ghost.org/"

AllFindings ==
    ErrorFindings \cup WarningFindings \cup RecommendationFindings \cup FeatureFindings

AllLabels ==
    {LabelOf([f EXCEPT !.level = l]) : f \in AllFindings,
                                      l \in {"error", "warning", "recommendation", "feature"}}

\* what a line that follows a rendered finding starts: the next finding, the
\* next section or the footer
Starters == AllLabels \cup {"\n" \o Titles[k] : k \in 1..3} \cup {FooterFirst}

\* C8: a finding with failures is rendered, when verbose is false, as its
\* label line, one 'Files:' line with the refs of the failures separated by
\* commas in their order and no message, and a blank line; when verbose is
\* true, as its label line, a 'Details:' line, then a 'Files:' header and one
\* line '<ref> - <message>' per failure in their order, and a blank line.
C8_FailuresRendered ==
    Finished =>
        \A slot \in Slots :
            LET r == FindingAt(slot)
                a == StartOf(slot[1], slot[2])
                fs == FailuresOf(r)
                n == Len(fs)
            IN  n > 0 =>
                  /\ VisAt(a) = LabelOf(r)
                  /\ IF ~options.verbose
                     THEN /\ VisAt(a + 1) = "Files: " \o CommaList(fs)
                          /\ VisAt(a + 2) = ""
                          /\ VisAt(a + 3) \in Starters
                     ELSE /\ VisAt(a + 1) = "\nDetails: " \o r.details[1]
                          /\ VisAt(a + 2) = ""
                          /\ VisAt(a + 3) = "Files:"
                          /\ \A i \in 1..n :
                                VisAt(a + 3 + i) = fs[i].ref \o " - " \o fs[i].message
                          /\ VisAt(a + 4 + n) = ""
                          /\ VisAt(a + 5 + n) \in Starters

C8_Witness ==
    /\ Finished
    /\ ~options.verbose
    /\ theme.results.error # <<>>
    /\ Len(FailuresOf(theme.results.error[1])) = 2
    /\ VisAt(StartOf(1, 1) + 1) = "Files: index.hbs,post.hbs"

Bare(r) == r.details = <<>> /\ NoFailures(r)

\* C9 as stated: a finding with no details and no failures is rendered as its
\* label line and a blank line and nothing else, verbose or not.
C9_BareFindingTwoLines ==
    Finished =>
        \A slot \in Slots :
            LET r == FindingAt(slot)
                a == StartOf(slot[1], slot[2])
            IN  Bare(r) =>
                  /\ VisAt(a) = LabelOf(r)
                  /\ VisAt(a + 1) = ""
                  /\ VisAt(a + 2) \in Starters

\* C9 amended: a finding with no details and no failures is rendered as its
\* label line and a blank line and nothing else when verbose is false; when
\* verbose is true a line 'Details: undefined' stands between the two.
C9_BareFinding ==
    Finished =>
        \A slot \in Slots :
            LET r == FindingAt(slot)
                a == StartOf(slot[1], slot[2])
            IN  Bare(r) =>
                  /\ VisAt(a) = LabelOf(r)
                  /\ IF ~options.verbose
                     THEN /\ VisAt(a + 1) = ""
                          /\ VisAt(a + 2) \in Starters
                     ELSE /\ VisAt(a + 1) = "\nDetails: undefined"
                          /\ VisAt(a + 2) = ""
                          /\ VisAt(a + 3) \in Starters

C9_Witness ==
    /\ Finished
    /\ options.verbose
    /\ theme.results.warning # <<>>
    /\ Bare(theme.results.warning[1])
    /\ theme.results.warning[1].failures # <<>>
    /\ theme.results.error # <<>>
    /\ Bare(theme.results.error[1])

(***************************************************************************)
(* The order of the report.                                                *)
(***************************************************************************)
FooterIndex == SectionStart(3) + SectionSize(Rendered[3])

\* C10: a run that reaches outputResults logs, in this order, what the format
\* step logs, the summary, the Errors section, the Warnings section, the
\* Recommendations section and the two footer lines, and then exits, after
\* which nothing happens; a section (header, underline and, for errors, the
\* subtitle) is there iff its bucket is not empty and renders each finding of
\* the bucket once, in the order of the bucket; no feature finding is rendered.
C10_ReportOrder ==
    Finished =>
        /\ exitCode \in {0, 1}
        /\ ~ENABLED Next
        /\ \A j \in 1..Len(log) : log[j].ch = "error" <=> (FormatThrew /\ j \in {2, 3})
        /\ SummaryLine = Text("\n") \o getSummary(color, theme, options)
        /\ \A k \in 1..3 :
              LET b == theme.results[Rendered[k]]
                  h == SectionStart(k)
              IN  IF b # <<>>
                  THEN /\ VisAt(h) = "\n" \o Titles[k]
                       /\ VisAt(h + 1) = repeat("-", Len(Titles[k]))
                       /\ k = 1 => VisAt(h + 2) = "Important to fix, functionality may be degraded.\n"
                       /\ \A i \in 1..Len(b) : VisAt(StartOf(k, i)) = LabelOf(b[i])
                  ELSE \A j \in 1..Len(log) : VisAt(j) # "\n" \o Titles[k]
        /\ Cardinality({j \in 1..Len(log) : VisAt(j) \in AllLabels})
              = Len(theme.results.error) + Len(theme.results.warning)
                  + Len(theme.results.recommendation)
        /\ \A i \in 1..Len(theme.results.feature) : \A j \in 1..Len(log) :
              VisAt(j) # LabelOf(theme.results.feature[i])
        /\ Len(log) = FooterIndex + 1
        /\ VisAt(FooterIndex) = FooterFirst
        /\ VisAt(FooterIndex + 1) = FooterSecond

C10_Witness ==
    /\ Finished
    /\ Len(theme.results.error) = 2
    /\ theme.results.error[1] # theme.results.error[2]
    /\ theme.results.warning # <<>>
    /\ theme.results.recommendation # <<>>
    /\ theme.results.feature # <<>>

====
